---- MODULE Spec2Model ----
(***************************************************************************)
(* TaskFlow API: position ranking of Lists within Projects and of Tasks    *)
(* within Lists (src/app/routers/{projects,lists,tasks}.py).               *)
(*                                                                         *)
(* The store is the three tables of src/app/models.py.  Every handler is   *)
(* one unit of work on one session: reads, in-memory changes of the loaded *)
(* rows, one commit.  A handler that raises HTTPException never commits.   *)
(* In Spec the requests are served serially: a handler runs as one step    *)
(* when no response is outstanding, and send_response ends the request.    *)
(***************************************************************************)
EXTENDS Integers, FiniteSets, Sequences, TLC

(* ---- bounds ---------------------------------------------------------- *)
MaxProjects == 2
MaxLists == 2
MaxTasks == 3

VARIABLES
    projects,   \* table "projects": the set of ids of its rows
    lists,      \* table "lists": id -> [project_id, position]
    tasks,      \* table "tasks": id -> [list_id, position]
    response,   \* the request being served and the HTTP response it gets
    pre,        \* the committed tables when that request arrived
    sessions    \* worker -> the session of the request it serves step by step

vars == <<projects, lists, tasks, response, pre, sessions>>

(* ---- helpers --------------------------------------------------------- *)
\* Python's "a or b" on integers
PyOr(a, b) == IF a = 0 THEN b ELSE a

SetMax(S) == CHOOSE x \in S : \A y \in S : y <= x

\* integer primary key of a newly inserted row
NextId(ids) == IF ids = {} THEN 1 ELSE SetMax(ids) + 1

NoBody == [id |-> 0, container |-> 0, position |-> 0]

\* db.delete(instance) as the handlers call it.  db is an AsyncSession
\* (every other session call in the handlers is awaited), and
\* AsyncSession.delete is a coroutine function.  The handlers call it
\* without await, so the coroutine object is dropped unrun: the instance is
\* never marked deleted, no cascade runs, and the commit deletes no row.
db_delete(rows, id) == rows

\* select(func.count(Task.id)).filter(Task.list_id == list_id)
CountTasks(ts, list_id) == Cardinality({t \in DOMAIN ts : ts[t].list_id = list_id})

\* select(func.count(List.id)).filter(List.project_id == project_id)
CountLists(ls, project_id) == Cardinality({l \in DOMAIN ls : ls[l].project_id = project_id})

\* "for task in <rows>: task.position += delta"
Shift(ts, rows, delta) ==
    [t \in DOMAIN ts |-> IF t \in rows THEN [ts[t] EXCEPT !.position = @ + delta] ELSE ts[t]]

TaskBody(ts, t) == [id |-> t, container |-> ts[t].list_id, position |-> ts[t].position]

Request(op, id, list_id, position) ==
    [op |-> op, id |-> id, list_id |-> list_id, position |-> position]

Respond(req, status, body) ==
    [op |-> req.op, id |-> req.id, list_id |-> req.list_id, position |-> req.position,
     status |-> status, body |-> body,
     given |-> FALSE, skip |-> 0, limit |-> 0, items |-> << >>]

\* the response of a listing handler: the query parameters and the rows returned
RespondItems(op, filter, skip, limit, items) ==
    [op |-> op, id |-> filter.value, list_id |-> 0, position |-> 0,
     status |-> 200, body |-> NoBody,
     given |-> filter.given, skip |-> skip, limit |-> limit, items |-> items]

Snapshot == [projects |-> projects, lists |-> lists, tasks |-> tasks]

NoRows == [r \in {} |-> 0]

NoResponse == Respond(Request("none", 0, 0, 0), 0, NoBody)

NoSnapshot == [projects |-> {}, lists |-> NoRows, tasks |-> NoRows]

\* the workers that serve requests step by step, one session each
Workers == {1, 2}

\* a session with no request: nothing loaded, nothing pending
NoSession ==
    [pc |-> "idle", op |-> "none", id |-> 0, list_id |-> 0, position |-> 0,
     status |-> 0, loaded |-> NoRows, rows |-> NoRows,
     max_position |-> 0, insert |-> FALSE, created |-> 0]

NoSessions == [w \in Workers |-> NoSession]

\* no request is being served
Idle == response = NoResponse

(* ids and positions a request may carry: every id that exists and one     *)
(* that does not; every position from one below the accepted range to one  *)
(* above the number of tasks of the list the request names                 *)
ProjectIdInputs == projects \cup {NextId(projects)}
ListIdInputs == DOMAIN lists \cup {NextId(DOMAIN lists)}
TaskIdInputs == DOMAIN tasks \cup {NextId(DOMAIN tasks)}
PositionInputs(list_id) == (0 - 1)..(CountTasks(tasks, list_id) + 1)

(* ---- initial state ---------------------------------------------------- *)
Init ==
    /\ projects = {}
    /\ lists = NoRows
    /\ tasks = NoRows
    /\ response = NoResponse
    /\ pre = NoSnapshot
    /\ sessions = NoSessions

(* ---- projects.py ------------------------------------------------------ *)
create_project ==
    /\ Idle
    /\ Cardinality(projects) < MaxProjects
    /\ LET id == NextId(projects) IN
        /\ projects' = projects \cup {id}
        /\ response' = Respond(Request("create_project", 0, 0, 0), 200,
                               [id |-> id, container |-> 0, position |-> 0])
    /\ pre' = Snapshot
    /\ UNCHANGED sessions
    /\ UNCHANGED <<lists, tasks>>

delete_project ==
    \E project_id \in ProjectIdInputs :
        LET req == Request("delete_project", project_id, 0, 0) IN
        /\ Idle
        /\ pre' = Snapshot
        /\ UNCHANGED sessions
        /\ IF project_id \notin projects
           THEN /\ response' = Respond(req, 404, NoBody)
                /\ UNCHANGED <<projects, lists, tasks>>
           ELSE /\ projects' = db_delete(projects, project_id)
                /\ response' = Respond(req, 200, NoBody)
                /\ UNCHANGED <<lists, tasks>>

(* ---- lists.py --------------------------------------------------------- *)
project_exists(ps, project_id) == project_id \in ps

\* position given to a new list: "count_result.scalar() or 0"
create_list_position(ls, project_id) == PyOr(CountLists(ls, project_id), 0)

create_list ==
    \E project_id \in ProjectIdInputs :
        LET req == Request("create_list", project_id, 0, 0) IN
        /\ Idle
        /\ pre' = Snapshot
        /\ UNCHANGED sessions
        /\ IF ~project_exists(projects, project_id)
           THEN /\ response' = Respond(req, 404, NoBody)
                /\ UNCHANGED <<projects, lists, tasks>>
           ELSE /\ Cardinality(DOMAIN lists) < MaxLists
                /\ LET id == NextId(DOMAIN lists)
                       db_list == [project_id |-> project_id,
                                   position |-> create_list_position(lists, project_id)]
                   IN  /\ lists' = [l \in DOMAIN lists \cup {id} |->
                                        IF l = id THEN db_list ELSE lists[l]]
                       /\ response' = Respond(req, 200,
                              [id |-> id, container |-> project_id,
                               position |-> db_list.position])
                /\ UNCHANGED <<projects, tasks>>

delete_list ==
    \E list_id \in ListIdInputs :
        LET req == Request("delete_list", list_id, 0, 0) IN
        /\ Idle
        /\ pre' = Snapshot
        /\ UNCHANGED sessions
        /\ IF list_id \notin DOMAIN lists
           THEN /\ response' = Respond(req, 404, NoBody)
                /\ UNCHANGED <<projects, lists, tasks>>
           ELSE /\ lists' = db_delete(lists, list_id)
                /\ response' = Respond(req, 200, NoBody)
                /\ UNCHANGED <<projects, tasks>>

(* ---- tasks.py --------------------------------------------------------- *)
\* seeded fault: the existence check of the list is left out
Mutant_list_exists(ls, list_id) == TRUE

list_exists(ls, list_id) == list_id \in DOMAIN ls

task_exists(ts, task_id) == task_id \in DOMAIN ts

\* seeded fault: the new task takes the last occupied position, not the count
Mutant_create_task_position(ts, list_id) ==
    IF CountTasks(ts, list_id) = 0 THEN 0 ELSE CountTasks(ts, list_id) - 1

\* seeded fault: the count query leaves out "Task.list_id == task.list_id"
Mutant_create_task_count(ts, list_id) == PyOr(Cardinality(DOMAIN ts), 0)

\* position given to a new task: "count_result.scalar() or 0"
create_task_position(ts, list_id) == PyOr(CountTasks(ts, list_id), 0)

create_task ==
    \E list_id \in ListIdInputs :
        LET req == Request("create_task", 0, list_id, 0) IN
        /\ Idle
        /\ pre' = Snapshot
        /\ UNCHANGED sessions
        /\ IF ~list_exists(lists, list_id)
           THEN /\ response' = Respond(req, 404, NoBody)
                /\ UNCHANGED <<projects, lists, tasks>>
           ELSE /\ Cardinality(DOMAIN tasks) < MaxTasks
                /\ LET id == NextId(DOMAIN tasks)
                       db_task == [list_id |-> list_id,
                                   position |-> create_task_position(tasks, list_id)]
                   IN  /\ tasks' = [t \in DOMAIN tasks \cup {id} |->
                                        IF t = id THEN db_task ELSE tasks[t]]
                       /\ response' = Respond(req, 200,
                              [id |-> id, container |-> list_id,
                               position |-> db_task.position])
                /\ UNCHANGED <<projects, lists>>

\* seeded fault: the reorder query leaves out "Task.list_id == list_id"
Mutant_delete_task_reorder(ts, task_id) ==
    LET position == ts[task_id].position
        after_delete == db_delete(ts, task_id)
        remaining_tasks == {t \in DOMAIN after_delete :
                                after_delete[t].position > position}
    IN  Shift(after_delete, remaining_tasks, 0 - 1)

\* delete_task after the 404 check: db.delete, then "Reorder remaining tasks"
delete_task_reorder(ts, task_id) ==
    LET list_id == ts[task_id].list_id
        position == ts[task_id].position
        after_delete == db_delete(ts, task_id)
        remaining_tasks == {t \in DOMAIN after_delete :
                                /\ after_delete[t].list_id = list_id
                                /\ after_delete[t].position > position}
    IN  Shift(after_delete, remaining_tasks, 0 - 1)

delete_task ==
    \E task_id \in TaskIdInputs :
        LET req == Request("delete_task", task_id, 0, 0) IN
        /\ Idle
        /\ pre' = Snapshot
        /\ UNCHANGED sessions
        /\ IF ~task_exists(tasks, task_id)
           THEN /\ response' = Respond(req, 404, NoBody)
                /\ UNCHANGED <<projects, lists, tasks>>
           ELSE /\ tasks' = delete_task_reorder(tasks, task_id)
                /\ response' = Respond(req, 200, NoBody)
                /\ UNCHANGED <<projects, lists>>

\* move_task "Validate new position": TRUE when the position is accepted
move_position_valid(ts, new_list_id, new_position) ==
    LET max_position == PyOr(CountTasks(ts, new_list_id), 0)
    IN  ~(new_position < 0 \/ new_position > max_position)

\* move_task, "If moving within the same list" branch, and "Update task"
move_same_list(ts, task_id, new_position) ==
    LET old_list_id == ts[task_id].list_id
        old_position == ts[task_id].position
        moving_down == {t \in DOMAIN ts :
                            /\ ts[t].list_id = old_list_id
                            /\ ts[t].position > old_position
                            /\ ts[t].position <= new_position
                            /\ t # task_id}
        moving_up == {t \in DOMAIN ts :
                            /\ ts[t].list_id = old_list_id
                            /\ ts[t].position >= new_position
                            /\ ts[t].position < old_position
                            /\ t # task_id}
        shifted == IF old_position < new_position
                   THEN Shift(ts, moving_down, 0 - 1)
                   ELSE Shift(ts, moving_up, 1)
    IN  IF old_position = new_position
        THEN ts
        ELSE [shifted EXCEPT ![task_id] =
                  [list_id |-> old_list_id, position |-> new_position]]

\* seeded fault: the slot in the target list is opened above new_position
\* only (">" for ">=")
Mutant_move_cross_list(ts, task_id, new_list_id, new_position) ==
    LET old_list_id == ts[task_id].list_id
        old_position == ts[task_id].position
        tasks_in_old_list == {t \in DOMAIN ts :
                                  /\ ts[t].list_id = old_list_id
                                  /\ ts[t].position > old_position
                                  /\ t # task_id}
        closed == Shift(ts, tasks_in_old_list, 0 - 1)
        tasks_in_new_list == {t \in DOMAIN closed :
                                  /\ closed[t].list_id = new_list_id
                                  /\ closed[t].position > new_position
                                  /\ t # task_id}
        opened == Shift(closed, tasks_in_new_list, 1)
    IN  [opened EXCEPT ![task_id] =
             [list_id |-> new_list_id, position |-> new_position]]

\* move_task, "Moving to different list" branch, and "Update task"
move_cross_list(ts, task_id, new_list_id, new_position) ==
    LET old_list_id == ts[task_id].list_id
        old_position == ts[task_id].position
        tasks_in_old_list == {t \in DOMAIN ts :
                                  /\ ts[t].list_id = old_list_id
                                  /\ ts[t].position > old_position
                                  /\ t # task_id}
        closed == Shift(ts, tasks_in_old_list, 0 - 1)
        tasks_in_new_list == {t \in DOMAIN closed :
                                  /\ closed[t].list_id = new_list_id
                                  /\ closed[t].position >= new_position
                                  /\ t # task_id}
        opened == Shift(closed, tasks_in_new_list, 1)
    IN  [opened EXCEPT ![task_id] =
             [list_id |-> new_list_id, position |-> new_position]]

\* move_task as a whole: the status it answers and the tasks it commits
move_task_result(ts, ls, task_id, list_id, position) ==
    IF ~task_exists(ts, task_id) THEN [status |-> 404, tasks |-> ts]
    ELSE IF ~list_exists(ls, list_id) THEN [status |-> 404, tasks |-> ts]
    ELSE IF ~move_position_valid(ts, list_id, position) THEN [status |-> 400, tasks |-> ts]
    ELSE IF ts[task_id].list_id = list_id
         THEN [status |-> 200, tasks |-> move_same_list(ts, task_id, position)]
         ELSE [status |-> 200, tasks |-> move_cross_list(ts, task_id, list_id, position)]

move_task ==
    \E task_id \in TaskIdInputs, list_id \in ListIdInputs :
    \E position \in PositionInputs(list_id) :
        LET req == Request("move_task", task_id, list_id, position)
            result == move_task_result(tasks, lists, task_id, list_id, position)
        IN
        /\ Idle
        /\ pre' = Snapshot
        /\ UNCHANGED sessions
        /\ tasks' = result.tasks
        /\ response' = Respond(req, result.status,
                               IF result.status = 200
                               THEN TaskBody(result.tasks, task_id) ELSE NoBody)
        /\ UNCHANGED <<projects, lists>>

\* seeded fault: the bound is the count itself, the "- 1" is left out
Mutant_reposition_position_valid(ts, list_id, new_position) ==
    LET max_position == PyOr(CountTasks(ts, list_id), 1)
    IN  ~(new_position < 0 \/ new_position > max_position)

\* reposition_task "Validate new position": TRUE when the position is accepted
reposition_position_valid(ts, list_id, new_position) ==
    LET max_position == PyOr(CountTasks(ts, list_id), 1) - 1
    IN  ~(new_position < 0 \/ new_position > max_position)

\* seeded fault: "Moving down" stops the block one short ("<" for "<=")
Mutant_reposition_shift_block(ts, task_id, new_position) ==
    LET list_id == ts[task_id].list_id
        old_position == ts[task_id].position
        moving_down == {t \in DOMAIN ts :
                            /\ ts[t].list_id = list_id
                            /\ ts[t].position > old_position
                            /\ ts[t].position < new_position
                            /\ t # task_id}
        moving_up == {t \in DOMAIN ts :
                            /\ ts[t].list_id = list_id
                            /\ ts[t].position >= new_position
                            /\ ts[t].position < old_position
                            /\ t # task_id}
        shifted == IF old_position < new_position
                   THEN Shift(ts, moving_down, 0 - 1)
                   ELSE Shift(ts, moving_up, 1)
    IN  IF old_position = new_position
        THEN ts
        ELSE [shifted EXCEPT ![task_id].position = new_position]

\* seeded fault: "Moving up" shifts the block with "-= 1", as "Moving down" does
Mutant_reposition_shift(ts, task_id, new_position) ==
    LET list_id == ts[task_id].list_id
        old_position == ts[task_id].position
        moving_down == {t \in DOMAIN ts :
                            /\ ts[t].list_id = list_id
                            /\ ts[t].position > old_position
                            /\ ts[t].position <= new_position
                            /\ t # task_id}
        moving_up == {t \in DOMAIN ts :
                            /\ ts[t].list_id = list_id
                            /\ ts[t].position >= new_position
                            /\ ts[t].position < old_position
                            /\ t # task_id}
        shifted == IF old_position < new_position
                   THEN Shift(ts, moving_down, 0 - 1)
                   ELSE Shift(ts, moving_up, 0 - 1)
    IN  IF old_position = new_position
        THEN ts
        ELSE [shifted EXCEPT ![task_id].position = new_position]

\* reposition_task from the same-position check to "db_task.position = new_position"
reposition_shift(ts, task_id, new_position) ==
    LET list_id == ts[task_id].list_id
        old_position == ts[task_id].position
        moving_down == {t \in DOMAIN ts :
                            /\ ts[t].list_id = list_id
                            /\ ts[t].position > old_position
                            /\ ts[t].position <= new_position
                            /\ t # task_id}
        moving_up == {t \in DOMAIN ts :
                            /\ ts[t].list_id = list_id
                            /\ ts[t].position >= new_position
                            /\ ts[t].position < old_position
                            /\ t # task_id}
        shifted == IF old_position < new_position
                   THEN Shift(ts, moving_down, 0 - 1)
                   ELSE Shift(ts, moving_up, 1)
    IN  IF old_position = new_position
        THEN ts
        ELSE [shifted EXCEPT ![task_id].position = new_position]

\* reposition_task as a whole: the status it answers and the tasks it commits
reposition_task_result(ts, task_id, position) ==
    IF ~task_exists(ts, task_id) THEN [status |-> 404, tasks |-> ts]
    ELSE IF ~reposition_position_valid(ts, ts[task_id].list_id, position)
         THEN [status |-> 400, tasks |-> ts]
    ELSE [status |-> 200, tasks |-> reposition_shift(ts, task_id, position)]

reposition_task ==
    \E task_id \in TaskIdInputs :
    \E position \in PositionInputs(IF task_exists(tasks, task_id)
                                    THEN tasks[task_id].list_id ELSE 0) :
        LET req == Request("reposition_task", task_id, 0, position)
            result == reposition_task_result(tasks, task_id, position)
        IN
        /\ Idle
        /\ pre' = Snapshot
        /\ UNCHANGED sessions
        /\ tasks' = result.tasks
        /\ response' = Respond(req, result.status,
                               IF result.status = 200
                               THEN TaskBody(result.tasks, task_id) ELSE NoBody)
        /\ UNCHANGED <<projects, lists>>

(* ---- listings: get_tasks, get_lists ------------------------------------ *)
\* default of the query parameter "limit"
DefaultLimit == 100

\* an optional integer query parameter: omitted (None) or given with a value
Omitted == [given |-> FALSE, value |-> 0]
Given(v) == [given |-> TRUE, value |-> v]

SkipInputs == {0, 1}
LimitInputs == {1, DefaultLimit}

\* Python's truth value of an Optional[int]: None and 0 are false
PyTruthy(arg) == arg.given /\ arg.value # 0

Min(a, b) == IF a <= b THEN a ELSE b

\* every order ORDER BY position may return the rows in: ascending position,
\* rows of equal position in any order
RECURSIVE OrderedByPosition(_, _)
OrderedByPosition(rows, ids) ==
    IF ids = {} THEN {<< >>}
    ELSE LET first == {m \in ids : \A u \in ids : rows[m].position <= rows[u].position}
         IN  UNION {{<<m>> \o rest : rest \in OrderedByPosition(rows, ids \ {m})} :
                       m \in first}

\* .offset(skip).limit(limit)
OffsetLimit(s, skip, limit) == SubSeq(s, skip + 1, Min(Len(s), skip + limit))

\* seeded fault: the filter is applied whenever list_id is given, 0 included
Mutant_get_tasks_filter(ts, list_id) ==
    IF list_id.given THEN {t \in DOMAIN ts : ts[t].list_id = list_id.value}
    ELSE DOMAIN ts

\* get_tasks: "if list_id: query = query.filter(Task.list_id == list_id)"
get_tasks_filter(ts, list_id) ==
    IF PyTruthy(list_id) THEN {t \in DOMAIN ts : ts[t].list_id = list_id.value}
    ELSE DOMAIN ts

\* get_lists: "if project_id: query = query.filter(List.project_id == project_id)"
get_lists_filter(ls, project_id) ==
    IF PyTruthy(project_id) THEN {l \in DOMAIN ls : ls[l].project_id = project_id.value}
    ELSE DOMAIN ls

get_tasks ==
    \E list_id \in {Omitted, Given(0)} \cup {Given(l) : l \in ListIdInputs} :
    \E ordered \in OrderedByPosition(tasks, get_tasks_filter(tasks, list_id)) :
    \E skip \in SkipInputs, limit \in LimitInputs :
        /\ Idle
        /\ pre' = Snapshot
        /\ UNCHANGED sessions
        /\ response' = RespondItems("get_tasks", list_id, skip, limit,
               OffsetLimit([i \in DOMAIN ordered |-> TaskBody(tasks, ordered[i])],
                           skip, limit))
        /\ UNCHANGED <<projects, lists, tasks>>

get_lists ==
    \E project_id \in {Omitted, Given(0)} \cup {Given(p) : p \in ProjectIdInputs} :
    \E ordered \in OrderedByPosition(lists, get_lists_filter(lists, project_id)) :
    \E skip \in SkipInputs, limit \in LimitInputs :
        /\ Idle
        /\ pre' = Snapshot
        /\ UNCHANGED sessions
        /\ response' = RespondItems("get_lists", project_id, skip, limit,
               OffsetLimit([i \in DOMAIN ordered |->
                                [id |-> ordered[i],
                                 container |-> lists[ordered[i]].project_id,
                                 position |-> lists[ordered[i]].position]],
                           skip, limit))
        /\ UNCHANGED <<projects, lists, tasks>>

(* ---- the request ends -------------------------------------------------- *)
\* the response goes to the client and the request's session (get_db) closes
send_response ==
    /\ ~Idle
    /\ response' = NoResponse
    /\ pre' = NoSnapshot
    /\ UNCHANGED sessions
    /\ UNCHANGED <<projects, lists, tasks>>

(* ---- specification ---------------------------------------------------- *)
Next ==
    \/ create_project
    \/ delete_project
    \/ create_list
    \/ delete_list
    \/ create_task
    \/ delete_task
    \/ move_task
    \/ reposition_task
    \/ send_response

Spec == Init /\ [][Next]_vars

(* One project's board: the store after the first create_project, served   *)
(* with the list and task requests only.                                   *)
InitBoard ==
    /\ projects = {1}
    /\ lists = NoRows
    /\ tasks = NoRows
    /\ response = NoResponse
    /\ pre = NoSnapshot
    /\ sessions = NoSessions

NextBoard ==
    \/ create_list
    \/ delete_list
    \/ create_task
    \/ delete_task
    \/ move_task
    \/ reposition_task
    \/ send_response

SpecBoard == InitBoard /\ [][NextBoard]_vars

(* The board read through the listing handlers, with the handlers that     *)
(* fill the lists and leave equal positions behind.                        *)
NextListing ==
    \/ create_list
    \/ create_task
    \/ delete_task
    \/ reposition_task
    \/ get_tasks
    \/ get_lists
    \/ send_response

SpecListing == InitBoard /\ [][NextListing]_vars

(* ---- the handlers step by step ---------------------------------------- *)
(* Every "await db.execute(...)" of a handler is one step of the worker's   *)
(* session, and "await db.commit()" is the last one. Between two steps of   *)
(* one worker the other worker may take steps of its own.                  *)

\* what a query of session s reads: the committed rows, and for the rows the
\* session holds, the columns it has changed since it loaded them
Visible(committed, s) ==
    [t \in DOMAIN committed |->
        IF t \in DOMAIN s.rows
        THEN [list_id  |-> IF s.rows[t].list_id # s.loaded[t].list_id
                           THEN s.rows[t].list_id ELSE committed[t].list_id,
              position |-> IF s.rows[t].position # s.loaded[t].position
                           THEN s.rows[t].position ELSE committed[t].position]
        ELSE committed[t]]

\* "result.scalars().all()": the returned rows join the session; a row the
\* session already holds keeps the values the session has for it
Load(s, visible, ids) ==
    [s EXCEPT !.loaded = [t \in DOMAIN s.loaded \cup ids |->
                             IF t \in DOMAIN s.loaded THEN s.loaded[t] ELSE visible[t]],
              !.rows   = [t \in DOMAIN s.rows \cup ids |->
                             IF t \in DOMAIN s.rows THEN s.rows[t] ELSE visible[t]]]

\* "for task in ...: task.position += delta" on rows of the session
ShiftHeld(s, ids, delta) ==
    [s EXCEPT !.rows = [t \in DOMAIN s.rows |->
                           IF t \in ids
                           THEN [s.rows[t] EXCEPT !.position = @ + delta]
                           ELSE s.rows[t]]]

\* "await db.commit()": the changed columns of the held rows are written and
\* the added task is inserted under the next id
session_commit(committed, s) ==
    LET written == Visible(committed, s)
        id == NextId(DOMAIN written)
    IN  IF s.insert
        THEN [t \in DOMAIN written \cup {id} |->
                 IF t = id
                 THEN [list_id |-> s.list_id, position |-> s.max_position]
                 ELSE written[t]]
        ELSE written

\* seeded fault: the handler also commits right after its first shift loop
Mutant_written_by(step, committed, s) ==
    IF step \in {"commit", "select"} THEN session_commit(committed, s) ELSE committed

\* the tasks table after a step of session s: only the commit step writes
written_by(step, committed, s) ==
    IF step = "commit" THEN session_commit(committed, s) ELSE committed

\* delete_task, "Reorder remaining tasks in the list": the rows the query returns
delete_task_remaining(visible, old) ==
    {t \in DOMAIN visible : /\ visible[t].list_id = old.list_id
                            /\ visible[t].position > old.position}

\* move_task within one list and reposition_task: the rows of the block
same_list_block(visible, task_id, old, new_position) ==
    IF old.position < new_position
    THEN {t \in DOMAIN visible : /\ visible[t].list_id = old.list_id
                                 /\ visible[t].position > old.position
                                 /\ visible[t].position <= new_position
                                 /\ t # task_id}
    ELSE {t \in DOMAIN visible : /\ visible[t].list_id = old.list_id
                                 /\ visible[t].position >= new_position
                                 /\ visible[t].position < old.position
                                 /\ t # task_id}

\* move_task to a different list, "Shift tasks in old list up"
tasks_in_old_list(visible, task_id, old) ==
    {t \in DOMAIN visible : /\ visible[t].list_id = old.list_id
                            /\ visible[t].position > old.position
                            /\ t # task_id}

\* move_task to a different list, "Shift tasks in new list down"
tasks_in_new_list(visible, task_id, new_list_id, new_position) ==
    {t \in DOMAIN visible : /\ visible[t].list_id = new_list_id
                            /\ visible[t].position >= new_position
                            /\ t # task_id}

\* the session answers and ends without a commit
Answer(s, status) == [s EXCEPT !.pc = "done", !.status = status]

\* the request arrives and the handler runs to its first await: the named
\* task, or for create_task the named list
lookup(w, op, id, list_id, position) ==
    LET s == [NoSession EXCEPT !.op = op, !.id = id,
                               !.list_id = list_id, !.position = position]
        found == IF op = "create_task"
                 THEN list_exists(lists, list_id) ELSE task_exists(tasks, id)
        next == CASE op = "create_task" -> "count"
                  [] op = "delete_task" -> "select"
                  [] op = "move_task" -> "lookup_list"
                  [] OTHER -> "count"
    IN  /\ sessions[w].pc = "idle"
        /\ sessions' = [sessions EXCEPT ![w] =
               IF ~found THEN Answer(s, 404)
               ELSE IF op = "create_task" THEN [s EXCEPT !.pc = next]
               ELSE [Load(s, tasks, {id}) EXCEPT !.pc = next]]
        /\ pre' = IF pre = NoSnapshot THEN Snapshot ELSE pre
        /\ UNCHANGED <<projects, lists, tasks, response>>

\* move_task, "Verify target list exists"
lookup_list(w) ==
    LET s == sessions[w] IN
    /\ s.pc = "lookup_list"
    /\ sessions' = [sessions EXCEPT ![w] =
           IF ~list_exists(lists, s.list_id) THEN Answer(s, 404)
           ELSE [s EXCEPT !.pc = "count"]]
    /\ UNCHANGED <<projects, lists, tasks, response, pre>>

\* the count query, the validation of the position and the no-op return
count_step(w) ==
    LET s == sessions[w]
        visible == Visible(tasks, s)
    IN
    /\ s.pc = "count"
    /\ sessions' = [sessions EXCEPT ![w] =
           IF s.op = "create_task"
           THEN [s EXCEPT !.max_position = create_task_position(visible, s.list_id),
                          !.insert = TRUE, !.pc = "commit"]
           ELSE LET old == s.rows[s.id]
                    valid == IF s.op = "move_task"
                             THEN move_position_valid(visible, s.list_id, s.position)
                             ELSE reposition_position_valid(visible, old.list_id, s.position)
                    same_list == s.op = "reposition_task" \/ old.list_id = s.list_id
                IN  IF ~valid THEN Answer(s, 400)
                    ELSE IF same_list /\ old.position = s.position THEN Answer(s, 200)
                    ELSE [s EXCEPT !.pc = "select"]]
    /\ UNCHANGED <<projects, lists, tasks, response, pre>>

\* "Update task": the handler's own row takes the requested list and position
task_update(s) ==
    [s EXCEPT !.rows[s.id] =
        [list_id  |-> IF s.op = "move_task" THEN s.list_id ELSE @.list_id,
         position |-> s.position]]

\* the first shift query and its loop; in one list this is the whole shift
select(w) ==
    LET s == sessions[w]
        visible == Visible(tasks, s)
        old == s.rows[s.id]
        cross == s.op = "move_task" /\ old.list_id # s.list_id
        ids == IF s.op = "delete_task" THEN delete_task_remaining(visible, old)
               ELSE IF cross THEN tasks_in_old_list(visible, s.id, old)
               ELSE same_list_block(visible, s.id, old, s.position)
        delta == IF s.op = "delete_task" \/ cross \/ old.position < s.position
                 THEN 0 - 1 ELSE 1
        shifted == ShiftHeld(Load(s, visible, ids), ids, delta)
        after == IF s.op = "delete_task" THEN [shifted EXCEPT !.pc = "commit"]
                 ELSE IF cross THEN [shifted EXCEPT !.pc = "select_target"]
                 ELSE [task_update(shifted) EXCEPT !.pc = "commit"]
    IN
    /\ s.pc = "select"
    /\ sessions' = [sessions EXCEPT ![w] = after]
    /\ tasks' = written_by("select", tasks, after)
    /\ UNCHANGED <<projects, lists, response, pre>>

\* move_task to a different list: "Shift tasks in new list down", "Update task"
select_target(w) ==
    LET s == sessions[w]
        visible == Visible(tasks, s)
        ids == tasks_in_new_list(visible, s.id, s.list_id, s.position)
        after == [task_update(ShiftHeld(Load(s, visible, ids), ids, 1))
                     EXCEPT !.pc = "commit"]
    IN
    /\ s.pc = "select_target"
    /\ sessions' = [sessions EXCEPT ![w] = after]
    /\ tasks' = written_by("select_target", tasks, after)
    /\ UNCHANGED <<projects, lists, response, pre>>

\* "await db.commit()" and the 200 answer
commit(w) ==
    LET s == sessions[w] IN
    /\ s.pc = "commit"
    /\ tasks' = written_by("commit", tasks, s)
    /\ sessions' = [sessions EXCEPT ![w] =
           [Answer(s, 200) EXCEPT
               !.created = IF s.insert THEN NextId(DOMAIN tasks) ELSE 0]]
    /\ UNCHANGED <<projects, lists, response, pre>>

\* a store error at an await, or the caller goes away: the session ends
\* without a commit, and what it held is never written
fail(w) ==
    LET s == sessions[w] IN
    /\ s.pc \notin {"idle", "done"}
    /\ sessions' = [sessions EXCEPT ![w] = Answer(s, 500)]
    /\ UNCHANGED <<projects, lists, tasks, response, pre>>

\* the boards the step-by-step specifications start from: project 1 with
\* all its lists, and up to MaxTasks tasks created list after list
BoardLists == [l \in 1..MaxLists |-> [project_id |-> 1, position |-> l - 1]]

BoardTasks(a) ==
    [t \in DOMAIN a |->
        [list_id |-> a[t],
         position |-> Cardinality({u \in DOMAIN a : u < t /\ a[u] = a[t]})]]

Boards ==
    {BoardTasks(a) :
        a \in {f \in UNION {[1..n -> 1..MaxLists] : n \in 0..MaxTasks} :
                  \A i, j \in DOMAIN f : i <= j => f[i] <= f[j]}}

InitSteps ==
    /\ projects = {1}
    /\ lists = BoardLists
    /\ tasks \in Boards
    /\ response = NoResponse
    /\ pre = NoSnapshot
    /\ sessions = NoSessions

\* one request served step by step, with every answer of the handlers
request ==
    \E op \in {"create_task", "delete_task", "move_task", "reposition_task"} :
    \E id \in IF op = "create_task" THEN {0} ELSE TaskIdInputs :
    \E list_id \in IF op \in {"create_task", "move_task"} THEN ListIdInputs ELSE {0} :
    \E position \in IF op = "move_task" THEN PositionInputs(list_id)
                    ELSE IF op = "reposition_task"
                    THEN PositionInputs(IF task_exists(tasks, id)
                                        THEN tasks[id].list_id ELSE 0)
                    ELSE {0} :
        lookup(1, op, id, list_id, position)

NextSteps ==
    \/ request
    \/ lookup_list(1)
    \/ count_step(1)
    \/ select(1)
    \/ select_target(1)
    \/ commit(1)
    \/ fail(1)

SpecSteps == InitSteps /\ [][NextSteps]_vars

(* ---- two requests at the same time ------------------------------------- *)
\* the lists a request touches: the list it names and the list of its task
AffectedLists(ts, op, id, list_id) ==
    (IF op \in {"create_task", "move_task"} THEN {list_id} ELSE {})
        \cup (IF op # "create_task" /\ id \in DOMAIN ts THEN {ts[id].list_id} ELSE {})

\* the lists the request of session s touches
SessionLists(ts, s) == AffectedLists(ts, s.op, s.id, s.list_id)

\* the requests of the concurrent specifications name existing rows and a
\* position the handler accepts on the committed tables
RequestOps == {"create_task", "delete_task", "move_task", "reposition_task"}

RequestIds(op) == IF op = "create_task" THEN {0} ELSE DOMAIN tasks

RequestLists(op) == IF op \in {"create_task", "move_task"} THEN DOMAIN lists ELSE {0}

RequestPositions(op, id, list_id) ==
    IF op = "move_task"
    THEN {p \in 0..Cardinality(DOMAIN tasks) : move_position_valid(tasks, list_id, p)}
    ELSE IF op = "reposition_task"
    THEN {p \in 0..Cardinality(DOMAIN tasks) :
             reposition_position_valid(tasks, tasks[id].list_id, p)}
    ELSE {0}

\* worker 1 receives its request first, worker 2 while worker 1 is still
\* serving its own
Arrives(w) ==
    /\ sessions[w].pc = "idle"
    /\ w = 2 => sessions[1].pc \notin {"idle", "done"}

\* two requests on any lists
concurrent_request ==
    \E w \in Workers :
        /\ Arrives(w)
        /\ \E op \in RequestOps :
           \E id \in RequestIds(op), list_id \in RequestLists(op) :
           \E position \in RequestPositions(op, id, list_id) :
               lookup(w, op, id, list_id, position)

\* two requests that have no list in common
disjoint_request ==
    \E w \in Workers :
        /\ Arrives(w)
        /\ \E op \in RequestOps :
           \E id \in RequestIds(op), list_id \in RequestLists(op) :
           \E position \in RequestPositions(op, id, list_id) :
               /\ w = 2 => AffectedLists(tasks, op, id, list_id)
                               \cap SessionLists(pre.tasks, sessions[1]) = {}
               /\ lookup(w, op, id, list_id, position)

NextConcurrent ==
    \/ concurrent_request
    \/ \E w \in Workers : lookup_list(w)
    \/ \E w \in Workers : count_step(w)
    \/ \E w \in Workers : select(w)
    \/ \E w \in Workers : select_target(w)
    \/ \E w \in Workers : commit(w)

SpecConcurrent == InitSteps /\ [][NextConcurrent]_vars

NextDisjoint ==
    \/ disjoint_request
    \/ \E w \in Workers : lookup_list(w)
    \/ \E w \in Workers : count_step(w)
    \/ \E w \in Workers : select(w)
    \/ \E w \in Workers : select_target(w)
    \/ \E w \in Workers : commit(w)

SpecDisjoint == InitSteps /\ [][NextDisjoint]_vars

(* ---- state predicates used by the properties -------------------------- *)
TasksOf(ts, list_id) == {t \in DOMAIN ts : ts[t].list_id = list_id}

ListsOf(ls, project_id) == {l \in DOMAIN ls : ls[l].project_id = project_id}

\* the members' positions are exactly {0..N-1}, each taken once
Dense(rows, members) ==
    /\ {rows[m].position : m \in members} = 0..(Cardinality(members) - 1)
    /\ \A m, n \in members : rows[m].position = rows[n].position => m = n

TypeOK ==
    /\ projects \subseteq 1..MaxProjects
    /\ DOMAIN lists \subseteq 1..MaxLists
    /\ DOMAIN tasks \subseteq 1..MaxTasks

\* the request being served, by handler and status
Served(op, status) == response.op = op /\ response.status = status

StoreUnchanged ==
    /\ projects = pre.projects
    /\ lists = pre.lists
    /\ tasks = pre.tasks

(* ---- C1 ---------------------------------------------------------------- *)
\* C1: Tasks-within-List density.  From the empty store, after any sequence
\* of create_task, delete_task, reposition_task and move_task calls, the
\* positions of the N tasks of every list are exactly {0..N-1}, no gap and
\* no duplicate.
C1_TaskDensity ==
    \A l \in DOMAIN lists : Dense(tasks, TasksOf(tasks, l))

(* ---- C2 ---------------------------------------------------------------- *)
\* C2: Lists-within-Project density.  The positions of the N lists of every
\* project are exactly {0..N-1}, and a successful delete_list of the list at
\* position P decrements by one every sibling list whose position was above P.
C2_ListDensity ==
    /\ \A p \in projects : Dense(lists, ListsOf(lists, p))
    /\ Served("delete_list", 200) =>
           LET deleted == pre.lists[response.id] IN
           \A l \in ListsOf(pre.lists, deleted.project_id) \ {response.id} :
               pre.lists[l].position > deleted.position =>
                   /\ l \in DOMAIN lists
                   /\ lists[l].position = pre.lists[l].position - 1

(* ---- C3 ---------------------------------------------------------------- *)
\* a move_task to another existing list was accepted, and both lists were
\* dense when the request arrived
CrossListMoveOfDense ==
    /\ Served("move_task", 200)
    /\ pre.tasks[response.id].list_id # response.list_id
    /\ Dense(pre.tasks, TasksOf(pre.tasks, pre.tasks[response.id].list_id))
    /\ Dense(pre.tasks, TasksOf(pre.tasks, response.list_id))

\* C3: Move conservation.  After such a move from A (Na tasks) to B (Nb
\* tasks), A holds Na-1 tasks at {0..Na-2}, B holds Nb+1 tasks at {0..Nb},
\* and the moved task is in B at the requested position and not in A.
C3_MoveConservation ==
    CrossListMoveOfDense =>
        LET t == response.id
            A == pre.tasks[t].list_id
            B == response.list_id
            Na == Cardinality(TasksOf(pre.tasks, A))
            Nb == Cardinality(TasksOf(pre.tasks, B))
        IN  /\ Cardinality(TasksOf(tasks, A)) = Na - 1
            /\ Dense(tasks, TasksOf(tasks, A))
            /\ TasksOf(tasks, A) = TasksOf(pre.tasks, A) \ {t}
            /\ Cardinality(TasksOf(tasks, B)) = Nb + 1
            /\ Dense(tasks, TasksOf(tasks, B))
            /\ TasksOf(tasks, B) = TasksOf(pre.tasks, B) \cup {t}
            /\ tasks[t] = [list_id |-> B, position |-> response.position]

\* a cross-list move that closed a gap in the source and opened a slot in
\* the target: a task stood behind the moved one, and one at the new position
C3_Witness ==
    /\ CrossListMoveOfDense
    /\ \E u \in TasksOf(pre.tasks, pre.tasks[response.id].list_id) :
           pre.tasks[u].position > pre.tasks[response.id].position
    /\ \E u \in TasksOf(pre.tasks, response.list_id) :
           pre.tasks[u].position >= response.position

(* ---- C4 ---------------------------------------------------------------- *)
\* C4: Delete-compacts.  A successful delete_task of the task at position P
\* of a dense list of N tasks leaves N-1 tasks in the list, the deleted task
\* gone, every former member above P one lower, every member below P as it was.
C4_DeleteCompacts ==
    (/\ Served("delete_task", 200)
     /\ Dense(pre.tasks, TasksOf(pre.tasks, pre.tasks[response.id].list_id))) =>
        LET t == response.id
            L == pre.tasks[t].list_id
            P == pre.tasks[t].position
            members == TasksOf(pre.tasks, L)
        IN  /\ t \notin DOMAIN tasks
            /\ TasksOf(tasks, L) = members \ {t}
            /\ Cardinality(TasksOf(tasks, L)) = Cardinality(members) - 1
            /\ \A m \in members \ {t} :
                   /\ pre.tasks[m].position > P =>
                          tasks[m].position = pre.tasks[m].position - 1
                   /\ pre.tasks[m].position < P =>
                          tasks[m].position = pre.tasks[m].position

(* ---- C5 ---------------------------------------------------------------- *)
\* C5: Insert-appends.  create_task into an existing list of N tasks creates
\* a task at position N of that list, create_list into an existing project of
\* N lists creates a list at position N, and no existing item's position or
\* container changes.
C5_InsertAppends ==
    /\ Served("create_task", 200) =>
           LET id == response.body.id
               L == response.list_id
               N == Cardinality(TasksOf(pre.tasks, L))
           IN  /\ id \notin DOMAIN pre.tasks
               /\ DOMAIN tasks = DOMAIN pre.tasks \cup {id}
               /\ tasks[id] = [list_id |-> L, position |-> N]
               /\ response.body = [id |-> id, container |-> L, position |-> N]
               /\ \A t \in DOMAIN pre.tasks : tasks[t] = pre.tasks[t]
               /\ lists = pre.lists
    /\ Served("create_list", 200) =>
           LET id == response.body.id
               p == response.id
               N == Cardinality(ListsOf(pre.lists, p))
           IN  /\ id \notin DOMAIN pre.lists
               /\ DOMAIN lists = DOMAIN pre.lists \cup {id}
               /\ lists[id] = [project_id |-> p, position |-> N]
               /\ response.body = [id |-> id, container |-> p, position |-> N]
               /\ \A l \in DOMAIN pre.lists : lists[l] = pre.lists[l]
               /\ tasks = pre.tasks
    /\ (response.op \in {"create_task", "create_list"} /\ response.status # 404) =>
           response.status = 200

\* a task appended behind two others, in a store whose second list was
\* appended behind the first
C5_Witness ==
    /\ Served("create_task", 200)
    /\ response.body.position = 2
    /\ \E l \in DOMAIN lists : lists[l].position = 1
(* ---- C6 ---------------------------------------------------------------- *)
\* the request names a task (and, for move_task, a target list) that exists
\* and a position outside the range its handler accepts
RepositionOutOfRange ==
    /\ response.op = "reposition_task"
    /\ response.id \in DOMAIN pre.tasks
    /\ \/ response.position < 0
       \/ response.position >
              Cardinality(TasksOf(pre.tasks, pre.tasks[response.id].list_id)) - 1

MoveOutOfRange ==
    /\ response.op = "move_task"
    /\ response.id \in DOMAIN pre.tasks
    /\ response.list_id \in DOMAIN pre.lists
    /\ \/ response.position < 0
       \/ response.position > Cardinality(TasksOf(pre.tasks, response.list_id))

\* C6: Boundary rejection without mutation.  reposition_task with a position
\* below 0 or above (tasks in the task's list) - 1, and move_task with a
\* position below 0 or above (tasks in the target list before the move),
\* answer 400, and every task, list and project is as it was before the call.
C6_BoundaryRejection ==
    /\ (RepositionOutOfRange \/ MoveOutOfRange) => response.status = 400
    /\ response.status = 400 => StoreUnchanged

\* reposition_task refused the first position past the end of a list of at
\* least two tasks
C6_Witness ==
    /\ RepositionOutOfRange
    /\ response.status = 400
    /\ response.position = Cardinality(TasksOf(pre.tasks, pre.tasks[response.id].list_id))
    /\ response.position >= 2

(* ---- C7 ---------------------------------------------------------------- *)
\* the request names a task, list or project that does not exist
NamesMissingItem ==
    \/ response.op = "create_task" /\ response.list_id \notin DOMAIN pre.lists
    \/ response.op = "create_list" /\ response.id \notin pre.projects
    \/ /\ response.op \in {"delete_task", "reposition_task", "move_task"}
       /\ response.id \notin DOMAIN pre.tasks
    \/ response.op = "move_task" /\ response.list_id \notin DOMAIN pre.lists

\* C7: NotFound without mutation.  create_task with a missing list,
\* create_list with a missing project, delete_task / reposition_task /
\* move_task with a missing task and move_task with a missing target list
\* answer 404, change no item's position or container, and create or delete
\* no item.
C7_NotFound ==
    /\ NamesMissingItem => response.status = 404
    /\ response.status = 404 => StoreUnchanged

\* move_task of an existing task to a list that does not exist was refused
C7_Witness ==
    /\ response.op = "move_task"
    /\ response.id \in DOMAIN pre.tasks
    /\ response.list_id \notin DOMAIN pre.lists
    /\ response.position = 0
    /\ response.status = 404

(* ---- C8 ---------------------------------------------------------------- *)
\* reposition_task moved a task of a dense list from P to another position Q
RepositionedInDense ==
    /\ Served("reposition_task", 200)
    /\ Dense(pre.tasks, TasksOf(pre.tasks, pre.tasks[response.id].list_id))

\* C8: Reposition round-trip.  In a dense list, reposition_task(task, Q)
\* followed by reposition_task(task, P), P the task's original position,
\* restores the original position of every task.
C8_RepositionRoundTrip ==
    RepositionedInDense =>
        LET back == reposition_task_result(tasks, response.id,
                                           pre.tasks[response.id].position)
        IN  /\ back.status = 200
            /\ back.tasks = pre.tasks

\* the first leg carried the task over at least two others
C8_Witness ==
    /\ RepositionedInDense
    /\ tasks # pre.tasks
    /\ \/ response.position >= pre.tasks[response.id].position + 2
       \/ response.position + 2 <= pre.tasks[response.id].position

(* ---- C9 ---------------------------------------------------------------- *)
\* C9: Same-position no-op.  reposition_task to the task's current position,
\* and move_task to the task's current list and current position, succeed,
\* return the task, and change no task's position or list.
C9_SamePositionNoOp ==
    (/\ response.op \in {"reposition_task", "move_task"}
     /\ response.id \in DOMAIN pre.tasks
     /\ response.position = pre.tasks[response.id].position
     /\ response.op = "move_task" => response.list_id = pre.tasks[response.id].list_id) =>
        /\ response.status = 200
        /\ response.body = TaskBody(pre.tasks, response.id)
        /\ StoreUnchanged

(* ---- C10 --------------------------------------------------------------- *)
\* C10: Ownership / no orphans.  Every task's list_id names an existing list
\* and every list's project_id an existing project; a successful
\* delete_project removes the project, its lists and their tasks, and a
\* successful delete_list removes the list and its tasks.
C10_Ownership ==
    /\ \A t \in DOMAIN tasks : tasks[t].list_id \in DOMAIN lists
    /\ \A l \in DOMAIN lists : lists[l].project_id \in projects
    /\ Served("delete_project", 200) =>
           /\ response.id \notin projects
           /\ ListsOf(lists, response.id) = {}
           /\ \A l \in ListsOf(pre.lists, response.id) : TasksOf(tasks, l) = {}
    /\ Served("delete_list", 200) =>
           /\ response.id \notin DOMAIN lists
           /\ TasksOf(tasks, response.id) = {}
(* ---- C14 --------------------------------------------------------------- *)
\* C14: Reposition block rotation.  An accepted reposition_task of a task at
\* oldPosition of a dense list sets its position to newPosition; moving later
\* it decrements exactly the other tasks in (oldPosition, newPosition], moving
\* earlier it increments exactly those in [newPosition, oldPosition); every
\* other task of the list keeps its position.
C14_BlockRotation ==
    RepositionedInDense =>
        LET t == response.id
            L == pre.tasks[t].list_id
            old == pre.tasks[t].position
            new == response.position
        IN  /\ tasks[t] = [list_id |-> L, position |-> new]
            /\ \A u \in TasksOf(pre.tasks, L) \ {t} :
                   LET p == pre.tasks[u].position IN
                   /\ tasks[u].list_id = L
                   /\ tasks[u].position =
                          IF old < new /\ p > old /\ p <= new THEN p - 1
                          ELSE IF old > new /\ p >= new /\ p < old THEN p + 1
                          ELSE p

\* a reposition whose block holds a task and leaves another task outside it
C14_Witness ==
    /\ RepositionedInDense
    /\ \E u, v \in TasksOf(pre.tasks, pre.tasks[response.id].list_id) \ {response.id} :
           /\ tasks[u].position # pre.tasks[u].position
           /\ tasks[v].position = pre.tasks[v].position

(* ---- C15 --------------------------------------------------------------- *)
\* a move_task request that names an existing task and another existing list
CrossListMoveRequest ==
    /\ response.op = "move_task"
    /\ response.id \in DOMAIN pre.tasks
    /\ response.list_id \in DOMAIN pre.lists
    /\ response.list_id # pre.tasks[response.id].list_id

\* C15: Acceptance bounds.  reposition_task succeeds for exactly the positions
\* 0..count(list)-1, the count including the task; move_task to another
\* existing list succeeds for exactly 0..count(target) as counted before the
\* insertion, and at count(target) the task is appended and no task of the
\* target list is shifted.
C15_AcceptanceBounds ==
    /\ (response.op = "reposition_task" /\ response.id \in DOMAIN pre.tasks) =>
           (response.status = 200 <=>
               /\ 0 <= response.position
               /\ response.position <=
                      Cardinality(TasksOf(pre.tasks, pre.tasks[response.id].list_id)) - 1)
    /\ CrossListMoveRequest =>
           LET count == Cardinality(TasksOf(pre.tasks, response.list_id)) IN
           /\ response.status = 200 <=>
                  (0 <= response.position /\ response.position <= count)
           /\ (response.status = 200 /\ response.position = count) =>
                  /\ tasks[response.id] =
                         [list_id |-> response.list_id, position |-> count]
                  /\ \A u \in TasksOf(pre.tasks, response.list_id) :
                         tasks[u] = pre.tasks[u]

\* a task appended by move_task behind the tasks of a non-empty target list
C15_Witness ==
    /\ CrossListMoveRequest
    /\ response.status = 200
    /\ response.position = Cardinality(TasksOf(pre.tasks, response.list_id))
    /\ response.position >= 1

(* ---- C16 --------------------------------------------------------------- *)
\* every task that was not in one of the given lists is as it was
OutsideUnchanged(affected) ==
    \A u \in DOMAIN pre.tasks :
        pre.tasks[u].list_id \notin affected =>
            u \in DOMAIN tasks /\ tasks[u] = pre.tasks[u]

C18_MoveEqualsReposition ==
    (/\ response.op = "move_task"
     /\ response.id \in DOMAIN pre.tasks
     /\ response.list_id = pre.tasks[response.id].list_id) =>
        LET r == reposition_task_result(pre.tasks, response.id, response.position)
        IN  /\ r.status = response.status
            /\ r.tasks = tasks

(* ---- C19 --------------------------------------------------------------- *)
\* C19: Relative order of the other tasks.  For two tasks X and Y of one
\* list, neither the task deleted, repositioned or moved, X is before Y after
\* a successful delete_task / reposition_task / move_task exactly when it was
\* before; in the source and in the target list of a cross-list move.
C19_RelativeOrder ==
    (/\ response.op \in {"delete_task", "reposition_task", "move_task"}
     /\ response.status = 200) =>
        \A x, y \in DOMAIN pre.tasks \ {response.id} :
            pre.tasks[x].list_id = pre.tasks[y].list_id =>
                /\ x \in DOMAIN tasks /\ y \in DOMAIN tasks
                /\ tasks[x].list_id = tasks[y].list_id
                /\ (tasks[x].position < tasks[y].position
                       <=> pre.tasks[x].position < pre.tasks[y].position)
(* ---- C17 --------------------------------------------------------------- *)
\* the rows of a listing: each row once, in ascending position, and the rows
\* left out by skip and limit not between the first and the last row returned
ListingOf(rows, ids, container) ==
    LET items == response.items
        n == Cardinality(ids)
        expected == IF n - response.skip < 0 THEN 0
                    ELSE Min(response.limit, n - response.skip)
    IN  /\ Len(items) = expected
        /\ \A i \in 1..Len(items) :
               /\ items[i].id \in ids
               /\ items[i].position = rows[items[i].id].position
               /\ items[i].container = container[items[i].id]
        /\ \A i, j \in 1..Len(items) : i # j => items[i].id # items[j].id
        /\ \A i, j \in 1..Len(items) : i < j => items[i].position <= items[j].position
        /\ \A u \in ids \ {items[i].id : i \in 1..Len(items)} :
               Len(items) > 0 =>
                   \/ rows[u].position <= items[1].position
                   \/ rows[u].position >= items[Len(items)].position
        /\ (response.skip = 0 /\ response.limit >= n) =>
               {items[i].id : i \in 1..Len(items)} = ids

\* C17: Listing filter sentinel.  get_tasks with list_id omitted or 0 returns
\* the tasks of all lists, with a non-zero list_id exactly the tasks of that
\* list, in ascending position order before skip and limit apply; get_lists
\* does the same with project_id.
C17_ListingFilter ==
    /\ response.op = "get_tasks" =>
           /\ response.status = 200
           /\ StoreUnchanged
           /\ ListingOf(tasks,
                        IF ~response.given \/ response.id = 0
                        THEN DOMAIN tasks ELSE TasksOf(tasks, response.id),
                        [t \in DOMAIN tasks |-> tasks[t].list_id])
    /\ response.op = "get_lists" =>
           /\ response.status = 200
           /\ StoreUnchanged
           /\ ListingOf(lists,
                        IF ~response.given \/ response.id = 0
                        THEN DOMAIN lists ELSE ListsOf(lists, response.id),
                        [l \in DOMAIN lists |-> lists[l].project_id])

\* get_tasks?list_id=0 returned the tasks of two lists, three in all
C17_Witness ==
    /\ response.op = "get_tasks"
    /\ response.given /\ response.id = 0
    /\ Len(response.items) = 3
    /\ \E i, j \in 1..3 : response.items[i].container # response.items[j].container

(* ---- one request step by step ------------------------------------------ *)
\* create_task served at once: the tasks it commits
create_task_result(ts, ls, list_id) ==
    IF ~list_exists(ls, list_id) THEN ts
    ELSE LET id == NextId(DOMAIN ts) IN
         [t \in DOMAIN ts \cup {id} |->
             IF t = id
             THEN [list_id |-> list_id, position |-> create_task_position(ts, list_id)]
             ELSE ts[t]]

\* the request of session s served at once: the tasks the handler commits
served_at_once(ts, ls, s) ==
    CASE s.op = "create_task" -> create_task_result(ts, ls, s.list_id)
      [] s.op = "delete_task" ->
             IF task_exists(ts, s.id) THEN delete_task_reorder(ts, s.id) ELSE ts
      [] s.op = "move_task" -> move_task_result(ts, ls, s.id, s.list_id, s.position).tasks
      [] s.op = "reposition_task" -> reposition_task_result(ts, s.id, s.position).tasks
      [] OTHER -> ts

BothDone == \A w \in Workers : sessions[w].pc = "done"

\* the two requests served one after the other on the tables from before
Serial(first, second) ==
    served_at_once(served_at_once(pre.tasks, pre.lists, sessions[first]),
                   pre.lists, sessions[second])

\* the two requests touch a common list
SameList ==
    SessionLists(pre.tasks, sessions[1]) \cap SessionLists(pre.tasks, sessions[2]) # {}

\* the two requests touch no common list
DisjointLists ==
    SessionLists(pre.tasks, sessions[1]) \cap SessionLists(pre.tasks, sessions[2]) = {}

\* C11: two requests on the same list whose steps interleave end in tables
\* that serving them one after the other, in one of the two orders, also
\* produces.
C11_SameContainerSerialization ==
    (BothDone /\ SameList) => (tasks = Serial(1, 2) \/ tasks = Serial(2, 1))

SameUpToCreatedIds(a, b) ==
    LET created_a == DOMAIN a \ DOMAIN pre.tasks
        created_b == DOMAIN b \ DOMAIN pre.tasks
    IN  /\ DOMAIN pre.tasks \subseteq DOMAIN a \cap DOMAIN b
        /\ \A t \in DOMAIN pre.tasks : a[t] = b[t]
        /\ \E f \in [created_a -> created_b] :
               /\ \A t, u \in created_a : f[t] = f[u] => t = u
               /\ {f[t] : t \in created_a} = created_b
               /\ \A t \in created_a : a[t] = b[f[t]]

====
